---- MODULE Spec2Model ----
(***************************************************************************)
(* A model of the kaleidoscope front end: the streaming tokenizer of       *)
(* src/src/lexer.rs, the recursive-descent parser of src/src/parser.rs and *)
(* the driver loop of src/src/main.rs.                                     *)
(*                                                                         *)
(* Characters are one-character strings; a string of the program is a      *)
(* sequence of characters.  Option<char> is a character or NoneChar,       *)
(* Option<Token> is a token or NoneTok.  A Result<T, String> is a record   *)
(* [tag, val, msg, p]: tag is "Ok", "Err" or "Panic" (the call aborted and *)
(* returned nothing), p is the parser as the call left it.                 *)
(***************************************************************************)
EXTENDS Integers, Sequences, FiniteSets, TLC

VARIABLES input, lexer, cur_token, pc, last, out

vars == <<input, lexer, cur_token, pc, last, out>>

RECURSIVE skip_whitespace(_)
RECURSIVE lex_while(_, _, _)
RECURSIVE skip_comment(_)
RECURSIVE next_token(_)
RECURSIVE parse_expression(_)
RECURSIVE parse_primary(_)
RECURSIVE parse_bin_op_rhs(_, _, _)
RECURSIVE parse_call_args(_, _)
RECURSIVE parse_prototype_args(_, _)
RECURSIVE Flatten(_)
RECURSIVE Join(_)
RECURSIVE RestTokens(_)
RECURSIVE RefTree(_, _, _)
RECURSIVE RefArgs(_, _, _)
RECURSIVE Advance(_, _)
RECURSIVE Digits(_, _)
RECURSIVE Normalise(_, _)
RECURSIVE NextStart(_, _)
RECURSIVE AfterComment(_)
RECURSIVE Uncommented(_)
RECURSIVE RefPrimaryEnd(_, _)
RECURSIVE RefChainEnd(_, _)
RECURSIVE RefArgsNext(_, _)

(***************************************************************************)
(* Bounds of the model.                                                    *)
(***************************************************************************)
\* longest raw character input given to the tokenizer alone
MaxChars == 4
\* calls of next_token made after it has returned end-of-input
MaxEofCalls == 2
\* binary operators in a generated operator expression
MaxOps == 3
\* arguments in a generated call
MaxArgs == 2
\* tokens between the parentheses of a generated prototype
MaxParamToks == 3
\* tokens in a generated input over the whole vocabulary
MaxLen == 3
\* words in a generated input of whitespace-separated words
MaxWords == 2
\* pieces (names, comments, line terminators) in a generated commented input
MaxPieces == 4

(***************************************************************************)
(* Characters                                                              *)
(***************************************************************************)
NoneChar == "None"

AsciiWhitespace == {" ", "\t", "\n", "\f", "\r"}

AsciiDigit == {"0", "1", "2", "3", "4", "5", "6", "7", "8", "9"}

AsciiAlphabetic ==
    {"a", "b", "c", "d", "e", "f", "g", "h", "i", "j", "k", "l", "m",
     "n", "o", "p", "q", "r", "s", "t", "u", "v", "w", "x", "y", "z",
     "A", "B", "C", "D", "E", "F", "G", "H", "I", "J", "K", "L", "M",
     "N", "O", "P", "Q", "R", "S", "T", "U", "V", "W", "X", "Y", "Z"}

is_ascii_whitespace(c) == c \in AsciiWhitespace

is_ascii_alphabetic(c) == c \in AsciiAlphabetic

is_ascii_digit(c) == c \in AsciiDigit

is_ascii_alphanumeric(c) == c \in AsciiAlphabetic \cup AsciiDigit

(***************************************************************************)
(* Tokens                                                                  *)
(***************************************************************************)
Tok(k, i, n, c) == [kind |-> k, id |-> i, num |-> n, ch |-> c]

NoneTok == Tok("None", <<>>, <<0, 0>>, "")

Eof == Tok("Eof", <<>>, <<0, 0>>, "")

Def == Tok("Def", <<>>, <<0, 0>>, "")

Extern == Tok("Extern", <<>>, <<0, 0>>, "")

Identifier(s) == Tok("Identifier", s, <<0, 0>>, "")

Number(n) == Tok("Number", <<>>, n, "")

Char(c) == Tok("Char", <<>>, <<0, 0>>, c)

(***************************************************************************)
(* str::parse::<f64>() on a run of digits and '.', and unwrap_or_default.  *)
(* A value is the pair <<m, e>> standing for m / 10^e, with no trailing    *)
(* zero in the fraction, so that two numerals denote the same value        *)
(* exactly when their pairs are equal.  (Exact for numerals of at most 15  *)
(* significant digits, which is every numeral within the bounds.)          *)
(***************************************************************************)
DigitValue(c) ==
    CASE c = "0" -> 0 [] c = "1" -> 1 [] c = "2" -> 2 [] c = "3" -> 3
      [] c = "4" -> 4 [] c = "5" -> 5 [] c = "6" -> 6 [] c = "7" -> 7
      [] c = "8" -> 8 [] c = "9" -> 9

Digits(s, acc) ==
    IF s = <<>> THEN acc
    ELSE IF Head(s) = "." THEN Digits(Tail(s), acc)
    ELSE Digits(Tail(s), acc * 10 + DigitValue(Head(s)))

Normalise(m, e) ==
    IF e > 0 /\ m % 10 = 0 THEN Normalise(m \div 10, e - 1) ELSE <<m, e>>

parse_f64(s) ==
    LET dots == {i \in 1..Len(s) : s[i] = "."}
        ndigits == Len(s) - Cardinality(dots)
    IN  IF Cardinality(dots) > 1 \/ ndigits = 0
        THEN <<0, 0>>
        ELSE IF dots = {}
        THEN <<Digits(s, 0), 0>>
        ELSE Normalise(Digits(s, 0), Len(s) - (CHOOSE i \in dots : TRUE))

(***************************************************************************)
(* Lexer { input, last_char }.  The character source is the sequence in   *)
(* the field input; pulls counts the calls of input.next() made so far, so *)
(* the source is exhausted once pulls exceeds Len(input).                  *)
(***************************************************************************)
step(L) ==
    [input |-> L.input,
     pulls |-> L.pulls + 1,
     last_char |-> IF L.pulls < Len(L.input) THEN L.input[L.pulls + 1] ELSE NoneChar]

\* Lexer::new on the characters chars
Lexer_on(chars) == step([input |-> chars, pulls |-> 0, last_char |-> NoneChar])

\* Lexer::new on the input of the run
Lexer_new == Lexer_on(input)

\* a tokenizer that skips blanks only
skip_whitespace_blank_only(L) ==
    IF L.last_char = " " THEN skip_whitespace(step(L)) ELSE L

skip_whitespace(L) ==
    IF L.last_char # NoneChar /\ is_ascii_whitespace(L.last_char)
    THEN skip_whitespace(step(L))
    ELSE L

\* a loop that steps once more when it breaks
lex_while_step_drops(L1, s, accepted) ==
    IF L1.last_char # NoneChar /\ L1.last_char \in accepted
    THEN lex_while(L1, Append(s, L1.last_char), accepted)
    ELSE [str |-> s, lex |-> step(L1)]

\* while let Some(c) = self.step() { if accepted(c) { s.push(c) } else { break } }
lex_while_step(L1, s, accepted) ==
    IF L1.last_char # NoneChar /\ L1.last_char \in accepted
    THEN lex_while(L1, Append(s, L1.last_char), accepted)
    ELSE [str |-> s, lex |-> L1]

lex_while(L, s, accepted) == lex_while_step(step(L), s, accepted)

\* a match that takes a word that begins with a keyword for the keyword
identifier_token_prefix(r) ==
    [tok |-> IF Len(r.str) >= 3 /\ SubSeq(r.str, 1, 3) = <<"d", "e", "f">> THEN Def
             ELSE IF Len(r.str) >= 6 /\ SubSeq(r.str, 1, 6) = <<"e", "x", "t", "e", "r", "n">>
             THEN Extern
             ELSE Identifier(r.str),
     lex |-> r.lex]

\* the match on the collected identifier (lexer.rs 60-66)
identifier_token(r) ==
    [tok |-> IF r.str = <<"d", "e", "f">> THEN Def
             ELSE IF r.str = <<"e", "x", "t", "e", "r", "n">> THEN Extern
             ELSE Identifier(r.str),
     lex |-> r.lex]

lex_identifier(L) ==
    identifier_token(lex_while(L, <<L.last_char>>, AsciiAlphabetic \cup AsciiDigit))

number_token(r) == [tok |-> Number(parse_f64(r.str)), lex |-> r.lex]

\* a numeral that ends at a '.'
lex_number_digits_only(L) == number_token(lex_while(L, <<L.last_char>>, AsciiDigit))

lex_number(L) == number_token(lex_while(L, <<L.last_char>>, AsciiDigit \cup {"."}))

\* a comment that only LF ends
comment_step_lf_only(L1) ==
    IF L1.last_char = NoneChar THEN [tok |-> Eof, lex |-> L1]
    ELSE IF L1.last_char = "\n" THEN next_token(L1)
    ELSE skip_comment(L1)

\* the loop of the comment branch, after one more step
comment_step(L1) ==
    IF L1.last_char = NoneChar THEN [tok |-> Eof, lex |-> L1]
    ELSE IF L1.last_char \in {"\r", "\n"} THEN next_token(L1)
    ELSE skip_comment(L1)

skip_comment(L) == comment_step(step(L))

\* a tokenizer that asks the source again once it is exhausted
classify_eager_eof(L1) ==
    IF L1.last_char = NoneChar THEN [tok |-> Eof, lex |-> step(L1)]
    ELSE IF is_ascii_alphabetic(L1.last_char) THEN lex_identifier(L1)
    ELSE IF is_ascii_digit(L1.last_char) \/ L1.last_char = "." THEN lex_number(L1)
    ELSE IF L1.last_char = "#" THEN skip_comment(L1)
    ELSE [tok |-> Char(L1.last_char), lex |-> step(L1)]

\* next_token once the whitespace is skipped
classify(L1) ==
    IF L1.last_char = NoneChar THEN [tok |-> Eof, lex |-> L1]
    ELSE IF is_ascii_alphabetic(L1.last_char) THEN lex_identifier(L1)
    ELSE IF is_ascii_digit(L1.last_char) \/ L1.last_char = "." THEN lex_number(L1)
    ELSE IF L1.last_char = "#" THEN skip_comment(L1)
    ELSE [tok |-> Char(L1.last_char), lex |-> step(L1)]

next_token(L) == classify(skip_whitespace(L))

(***************************************************************************)
(* Parser { lexer, cur_token }.  The field pulled counts the calls of      *)
(* lexer.next_token() made since the operation under way was entered.      *)
(* A routine that goes on after a call it made is written as the call      *)
(* handed to the operator that models the rest of the routine.             *)
(***************************************************************************)
Ok(v, P) == [tag |-> "Ok", val |-> v, msg |-> "", p |-> P]

Err(m, P) == [tag |-> "Err", val |-> <<>>, msg |-> m, p |-> P]

Panic(m, P) == [tag |-> "Panic", val |-> <<>>, msg |-> m, p |-> P]

Parser_new == [lexer |-> Lexer_new, cur_token |-> NoneTok, pulled |-> 0]

\* Option::take on the cur_token field
take(P) == [P EXCEPT !.cur_token = NoneTok]

\* the token and lexer that next_token returned, stored in the parser
store_token(P, r) == [lexer |-> r.lex, cur_token |-> r.tok, pulled |-> P.pulled + 1]

get_next_token(P) == store_token(P, next_token(P.lexer))

cur_token_get(P) ==
    IF P.cur_token = NoneTok
    THEN Panic("Parser: Expected cur_token!", P)
    ELSE Ok(P.cur_token, P)

\* '*' given the precedence of '+'
get_token_precedence_flat(tok) ==
    IF tok = Char("<") THEN 10
    ELSE IF tok = Char("+") THEN 20
    ELSE IF tok = Char("-") THEN 20
    ELSE IF tok = Char("*") THEN 20
    ELSE -1

get_token_precedence(tok) ==
    IF tok = Char("<") THEN 10
    ELSE IF tok = Char("+") THEN 20
    ELSE IF tok = Char("-") THEN 20
    ELSE IF tok = Char("*") THEN 40
    ELSE -1

parse_number_expr(P) ==
    IF P.cur_token = NoneTok THEN Panic("Parser: Expected cur_token!", P)
    ELSE IF P.cur_token.kind = "Number"
    THEN Ok(<<"Number", P.cur_token.num>>, get_next_token(P))
    ELSE Panic("unreachable", P)

\* parse_parenthesis_expr after its call of parse_expression
paren_close(r) ==
    IF r.tag # "Ok" THEN r
    ELSE IF r.p.cur_token = Char(")") THEN Ok(r.val, get_next_token(r.p))
    ELSE Err("expected ')'", r.p)

parse_parenthesis_expr(P) ==
    IF P.cur_token = NoneTok THEN Panic("Parser: Expected cur_token!", P)
    ELSE IF P.cur_token # Char("(") THEN Panic("assertion failed", P)
    ELSE paren_close(parse_expression(get_next_token(P)))

\* the body of the argument loop after its call of parse_expression
call_arg_next(r, args) ==
    IF r.tag # "Ok" THEN r
    ELSE IF r.p.cur_token = Char(")")
    THEN Ok(Append(args, r.val), get_next_token(r.p))
    ELSE IF r.p.cur_token # Char(",")
    THEN Err("expected ')' or ',' in argument list", r.p)
    ELSE parse_call_args(r.p, Append(args, r.val))

\* the argument loop of parse_identifier_expr, with the arguments collected so far
parse_call_args(P, args) == call_arg_next(parse_expression(P), args)

\* after the argument loop: the get_next_token that follows it
call_close(id_name, r) ==
    IF r.tag # "Ok" THEN r
    ELSE Ok(<<"Call", id_name, r.val>>, get_next_token(r.p))

\* after '(' was eaten
call_after_paren(id_name, P2) ==
    IF P2.cur_token # Char(")")
    THEN call_close(id_name, parse_call_args(P2, <<>>))
    ELSE Ok(<<"Call", id_name, <<>>>>, P2)

\* after the identifier was eaten
identifier_after_name(id_name, P1) ==
    IF P1.cur_token # Char("(") THEN Ok(<<"Variable", id_name>>, P1)
    ELSE call_after_paren(id_name, get_next_token(P1))

parse_identifier_expr(P) ==
    IF P.cur_token.kind # "Identifier" THEN Panic("unreachable", take(P))
    ELSE identifier_after_name(P.cur_token.id, get_next_token(take(P)))

\* a dispatch that sends every other token to parse_number_expr
parse_primary_no_fallback(P) ==
    IF P.cur_token = NoneTok THEN Panic("Parser: Expected cur_token!", P)
    ELSE IF P.cur_token.kind = "Identifier" THEN parse_identifier_expr(P)
    ELSE IF P.cur_token = Char("(") THEN parse_parenthesis_expr(P)
    ELSE parse_number_expr(P)

parse_primary(P) ==
    IF P.cur_token = NoneTok THEN Panic("Parser: Expected cur_token!", P)
    ELSE IF P.cur_token.kind = "Identifier" THEN parse_identifier_expr(P)
    ELSE IF P.cur_token.kind = "Number" THEN parse_number_expr(P)
    ELSE IF P.cur_token = Char("(") THEN parse_parenthesis_expr(P)
    ELSE Err("unkown token when expecting an expression", P)

\* lhs = Binary(binop, lhs, rhs), and the loop goes round
bin_op_combine(expr_prec, lhs, binop, r2) ==
    IF r2.tag # "Ok" THEN r2
    ELSE parse_bin_op_rhs(r2.p, expr_prec, <<"Binary", binop, lhs, r2.val>>)

\* after the primary that follows the operator was parsed
bin_op_after_primary(token_prec, expr_prec, lhs, binop, r) ==
    IF r.tag # "Ok" THEN r
    ELSE bin_op_combine(expr_prec, lhs, binop,
             IF token_prec < get_token_precedence(r.p.cur_token)
             THEN parse_bin_op_rhs(r.p, token_prec + 1, r.val)
             ELSE r)

\* an operator loop that eats the token it stops at
parse_bin_op_rhs_eats(P, expr_prec, lhs) ==
    IF P.cur_token = NoneTok THEN Panic("Parser: Expected cur_token!", P)
    ELSE IF get_token_precedence(P.cur_token) < expr_prec THEN Ok(lhs, get_next_token(P))
    ELSE IF P.cur_token.kind # "Char" THEN Panic("unreachable", take(P))
    ELSE bin_op_after_primary(get_token_precedence(P.cur_token), expr_prec, lhs,
             P.cur_token.ch, parse_primary(get_next_token(take(P))))

parse_bin_op_rhs(P, expr_prec, lhs) ==
    IF P.cur_token = NoneTok THEN Panic("Parser: Expected cur_token!", P)
    ELSE IF get_token_precedence(P.cur_token) < expr_prec THEN Ok(lhs, P)
    ELSE IF P.cur_token.kind # "Char" THEN Panic("unreachable", take(P))
    ELSE bin_op_after_primary(get_token_precedence(P.cur_token), expr_prec, lhs,
             P.cur_token.ch, parse_primary(get_next_token(take(P))))

expression_after_primary(r) ==
    IF r.tag # "Ok" THEN r ELSE parse_bin_op_rhs(r.p, 0, r.val)

parse_expression(P) == expression_after_primary(parse_primary(P))

\* a parameter loop that stops at a comma
prototype_arg_next_no_comma(P1, args) ==
    IF P1.cur_token.kind = "Identifier"
    THEN parse_prototype_args(take(P1), Append(args, P1.cur_token.id))
    ELSE [args |-> args, p |-> P1]

\* the body of the parameter loop after its get_next_token
prototype_arg_next(P1, args) ==
    IF P1.cur_token.kind = "Identifier"
    THEN parse_prototype_args(take(P1), Append(args, P1.cur_token.id))
    ELSE IF P1.cur_token = Char(",")
    THEN parse_prototype_args(take(P1), args)
    ELSE [args |-> args, p |-> P1]

\* the parameter loop of parse_prototype
parse_prototype_args(P, args) == prototype_arg_next(get_next_token(P), args)

\* a prototype that leaves its closing ')' as the current token
prototype_close_keeps_paren(id_name, r) ==
    IF r.p.cur_token # Char(")") THEN Err("expected ')' in prototype", r.p)
    ELSE Ok(<<"Prototype", id_name, r.args>>, r.p)

\* after the parameter loop
prototype_close(id_name, r) ==
    IF r.p.cur_token # Char(")") THEN Err("expected ')' in prototype", r.p)
    ELSE Ok(<<"Prototype", id_name, r.args>>, get_next_token(r.p))

\* after the function name was eaten
prototype_after_name(id_name, P1) ==
    IF P1.cur_token # Char("(") THEN Err("expected function name in prototype", P1)
    ELSE prototype_close(id_name, parse_prototype_args(P1, <<>>))

\* a parse_prototype that does not plug the taken token back
parse_prototype_no_plug(P) ==
    IF P.cur_token.kind # "Identifier"
    THEN Err("expected function name in prototype", take(P))
    ELSE prototype_after_name(P.cur_token.id, get_next_token(take(P)))

\* a parse_prototype that eats the token it rejects
parse_prototype_eats(P) ==
    IF P.cur_token.kind # "Identifier"
    THEN Err("expected function name in prototype", get_next_token(take(P)))
    ELSE prototype_after_name(P.cur_token.id, get_next_token(take(P)))

parse_prototype(P) ==
    IF P.cur_token.kind # "Identifier"
    THEN Err("expected function name in prototype", P)
    ELSE prototype_after_name(P.cur_token.id, get_next_token(take(P)))

definition_after_body(proto, e) ==
    IF e.tag # "Ok" THEN e ELSE Ok(<<"Function", proto, e.val>>, e.p)

definition_after_prototype(r) ==
    IF r.tag # "Ok" THEN r ELSE definition_after_body(r.val, parse_expression(r.p))

\* a parse_definition without its assertion on the current token
parse_definition_no_assert(P) ==
    IF P.cur_token = NoneTok THEN Panic("Parser: Expected cur_token!", P)
    ELSE definition_after_prototype(parse_prototype(get_next_token(P)))

parse_definition(P) ==
    IF P.cur_token = NoneTok THEN Panic("Parser: Expected cur_token!", P)
    ELSE IF P.cur_token # Def THEN Panic("assertion failed", P)
    ELSE definition_after_prototype(parse_prototype(get_next_token(P)))

parse_extern(P) ==
    IF P.cur_token = NoneTok THEN Panic("Parser: Expected cur_token!", P)
    ELSE IF P.cur_token # Extern THEN Panic("assertion failed", P)
    ELSE parse_prototype(get_next_token(P))

top_level_wrap(e) ==
    IF e.tag # "Ok" THEN e
    ELSE Ok(<<"Function", <<"Prototype", <<>>, <<>>>>, e.val>>, e.p)

parse_top_level_expr(P) == top_level_wrap(parse_expression(P))

(***************************************************************************)
(* Inputs.  A parser input is written as a sequence of lexemes, joined     *)
(* into the character sequence the tokenizer reads: a blank separates two  *)
(* lexemes that would otherwise run into one word or numeral, and nothing  *)
(* separates the others ("def f(x,y)x+y*2").                               *)
(***************************************************************************)
SeqsUpTo(S, n) == UNION {[1..k -> S] : k \in 0..n}

Flatten(ss) == IF ss = <<>> THEN <<>> ELSE Head(ss) \o Flatten(Tail(ss))

Wordy(c) == c \in AsciiAlphabetic \cup AsciiDigit \cup {"."}

Join(ls) ==
    IF ls = <<>> THEN <<>>
    ELSE IF Len(ls) = 1 THEN ls[1]
    ELSE IF Wordy(ls[1][Len(ls[1])]) /\ Wordy(ls[2][1])
    THEN ls[1] \o <<" ">> \o Join(Tail(ls))
    ELSE ls[1] \o Join(Tail(ls))

LexAlphabet == {"a", "1", ".", " ", "\n", "#", "+"}

KwDef == <<"d", "e", "f">>

KwExtern == <<"e", "x", "t", "e", "r", "n">>

Words ==
    {KwDef, KwDef \o <<"i", "n", "e">>, KwDef \o <<"1">>,
     KwExtern, KwExtern \o <<"s">>, <<"a">>}

Separators == {<<" ">>, <<"\t", "\n">>}

\* the words ws with sep between them, and pad before and after
WordJoin(ws, sep, pad) ==
    pad \o Flatten([i \in 1..Len(ws) |-> IF i = 1 THEN ws[i] ELSE sep \o ws[i]]) \o pad

WordInputs ==
    {WordJoin(ws, sep, pad) :
        ws \in SeqsUpTo(Words, MaxWords), sep \in Separators, pad \in {<<>>, <<" ">>}}

CommentPieces == {<<"a">>, <<"1">>, <<"#", "c">>, <<"\r">>, <<"\n">>, <<" ">>}

CommentInputs == {Flatten(ls) : ls \in SeqsUpTo(CommentPieces, MaxPieces)}

\* inputs of the tests of lexer.rs
TestInputs ==
    {<<"a", "+", "b", "-", "c">>,
     <<"1", "2", ".", "3", "4", ".", "1">>,
     <<"a", "b", "c", " ", "#", " ", "c", "o", "m", "m", "e", "n", "t", " ", "\n",
       " ", "x", "y", "z">>,
     <<" ", " ", "+", "a", " ", " ", "b", " ", "c", "!", " ">>}

LexInputs ==
    SeqsUpTo(LexAlphabet, MaxChars) \cup WordInputs \cup CommentInputs \cup TestInputs

BinOps == {<<"<">>, <<"+">>, <<"-">>, <<"*">>}

\* the i-th primary of a generated expression: a variable, then a number, ...
Prim(i) == <<(<<"a", "2", "c", "4", "e", "6", "g", "8">>)[((i - 1) % 8) + 1]>>

\* p1 op1 p2 ... opk p(k+1)
ExprLexemes(ops) ==
    [i \in 1..(2 * Len(ops) + 1) |->
        IF i % 2 = 1 THEN Prim((i + 1) \div 2) ELSE ops[i \div 2]]

ExprInputs == {ExprLexemes(ops) : ops \in SeqsUpTo(BinOps, MaxOps)}

\* arg1 , arg2 , ... , argn
ArgLexemes(args) ==
    Flatten([i \in 1..Len(args) |->
        IF i = 1 THEN args[i] ELSE <<<<",">>>> \o args[i]])

CallArgLists ==
    UNION {{[i \in 1..n |-> IF i \in S THEN <<Prim(i), <<"+">>, <<"1">>>> ELSE <<Prim(i)>>] :
               S \in SUBSET (1..n)} : n \in 0..MaxArgs}

CallInputs ==
    {pre \o <<<<"f">>, <<"(">>>> \o ArgLexemes(args) \o <<<<")">>>> \o post :
        pre \in {<<>>, <<<<"1">>, <<"*">>>>},
        args \in CallArgLists,
        post \in {<<>>, <<<<"+">>, <<"2">>>>}}

ProtoBodies ==
    {<<>>,
     <<<<"x">>, <<"+">>, <<"y">>, <<"*">>, <<"2">>>>,
     <<<<"(">>, <<"x">>>>}

DefInputs ==
    {<<kw, <<"f">>, <<"(">>>> \o params \o <<<<")">>>> \o body :
        kw \in {KwDef, KwExtern},
        params \in SeqsUpTo({<<"x">>, <<"y">>, <<",">>}, MaxParamToks),
        body \in ProtoBodies}

Vocabulary == {KwDef, KwExtern, <<"f">>, <<"*">>, <<"1">>, <<"+">>, <<"(">>, <<")">>, <<",">>, <<";">>}

ShortInputs == SeqsUpTo(Vocabulary, MaxLen)

\* what stands between '(' and the place of its ')'
ParenInners ==
    {<<<<"a">>>>,
     <<<<"a">>, <<"+">>, <<"2">>>>,
     <<<<"(">>, <<"a">>, <<")">>>>,
     <<<<"(">>, <<"a">>, <<"*">>, <<"2">>, <<")">>, <<"+">>, <<"b">>>>,
     <<<<"f">>, <<"(">>, <<"a">>, <<")">>>>,
     <<<<"f">>, <<"(">>, <<")">>>>}

\* what follows the inner expression
ParenFollows ==
    {<<>>, <<<<")">>>>, <<<<")">>, <<";">>>>, <<<<"1">>, <<")">>>>, <<<<";">>>>, <<<<",">>, <<"b">>, <<")">>>>}

ParenInputs ==
    {<<<<"(">>>> \o inner \o follow : inner \in ParenInners, follow \in ParenFollows}

\* what a parameter list stops at in place of its ')'
ProtoStops == {<<>>, <<<<";">>>>, <<<<"1">>, <<")">>>>, <<KwDef>>, <<<<"(">>, <<")">>>>}

ProtoInputs ==
    {<<<<"f">>, <<"(">>>> \o params \o stop :
        params \in SeqsUpTo({<<"x">>, <<"y">>, <<",">>}, MaxParamToks),
        stop \in ProtoStops}

ParserInputs ==
    {Join(ls) : ls \in ExprInputs \cup CallInputs \cup DefInputs \cup ShortInputs
                        \cup ParenInputs \cup ProtoInputs}

NoLast == [op |-> "none", entry |-> [lexer |-> [input |-> <<>>, pulls |-> 0, last_char |-> NoneChar],
                                     cur_token |-> NoneTok, pulled |-> 0],
           tag |-> "none", val |-> <<>>, msg |-> "", pulled |-> 0]

(***************************************************************************)
(* The tokenizer used alone: a test that builds a Lexer and calls          *)
(* next_token again and again (lexer.rs, mod test).                        *)
(***************************************************************************)
LexInit ==
    /\ input \in LexInputs
    /\ lexer = Lexer_new
    /\ cur_token = NoneTok
    /\ pc = "lex"
    /\ last = NoLast
    /\ out = <<>>

EofCalls == Cardinality({i \in 1..Len(out) : out[i].tok = Eof})

LexNextToken ==
    /\ pc = "lex"
    /\ EofCalls <= MaxEofCalls
    /\ LET r == next_token(lexer)
       IN  /\ lexer' = r.lex
           /\ out' = Append(out, [tok |-> r.tok, pulls |-> r.lex.pulls])
    /\ UNCHANGED <<input, cur_token, pc, last>>

LexNext == LexNextToken

LexSpec == LexInit /\ [][LexNext]_vars

(***************************************************************************)
(* The parser used through its operations, as the tests of parser.rs and   *)
(* the driver use it: Parser::new(Lexer::new(input)), then any sequence of *)
(* calls.  last records the call made last: the parser on entry, what the  *)
(* call returned and how many tokens it pulled.  A call that panics ends   *)
(* the run.                                                                *)
(***************************************************************************)
Init ==
    /\ input \in ParserInputs
    /\ lexer = Parser_new.lexer
    /\ cur_token = Parser_new.cur_token
    /\ pc = "parser"
    /\ last = NoLast
    /\ out = <<>>

Self == [lexer |-> lexer, cur_token |-> cur_token, pulled |-> 0]

Returns(name, r) ==
    /\ lexer' = r.p.lexer
    /\ cur_token' = r.p.cur_token
    /\ last' = [op |-> name, entry |-> Self, tag |-> r.tag, val |-> r.val,
                msg |-> r.msg, pulled |-> r.p.pulled]
    /\ pc' = IF r.tag = "Panic" THEN "aborted" ELSE pc
    /\ UNCHANGED <<input, out>>

GetNextToken ==
    /\ pc = "parser"
    /\ Returns("get_next_token", Ok(<<>>, get_next_token(Self)))

CurToken ==
    /\ pc = "parser"
    /\ Returns("cur_token", cur_token_get(Self))

ParseDefinition ==
    /\ pc = "parser"
    /\ Returns("parse_definition", parse_definition(Self))

ParseExtern ==
    /\ pc = "parser"
    /\ Returns("parse_extern", parse_extern(Self))

ParseTopLevelExpr ==
    /\ pc = "parser"
    /\ Returns("parse_top_level_expr", parse_top_level_expr(Self))

ParseExpression ==
    /\ pc = "parser"
    /\ Returns("parse_expression", parse_expression(Self))

ParsePrimary ==
    /\ pc = "parser"
    /\ Returns("parse_primary", parse_primary(Self))

ParsePrototype ==
    /\ pc = "parser"
    /\ Returns("parse_prototype", parse_prototype(Self))

Next ==
    \/ GetNextToken
    \/ CurToken
    \/ ParseDefinition
    \/ ParseExtern
    \/ ParseTopLevelExpr
    \/ ParseExpression
    \/ ParsePrimary
    \/ ParsePrototype

Spec == Init /\ [][Next]_vars

(***************************************************************************)
(* The driver: main() of main.rs.  One action is main's first              *)
(* get_next_token, and one action is one turn of its loop, the handler it  *)
(* calls included.                                                         *)
(***************************************************************************)
\* what every handle_* does with the result of its parse
handled(r) == IF r.tag = "Err" THEN [r EXCEPT !.p = get_next_token(r.p)] ELSE r

handle_definition(P) == handled(parse_definition(P))

handle_extern(P) == handled(parse_extern(P))

\* a handler that reports the error and does not advance
handle_top_level_expression_no_advance(P) == parse_top_level_expr(P)

handle_top_level_expression(P) == handled(parse_top_level_expr(P))

DriverInit ==
    /\ input \in ParserInputs
    /\ lexer = Parser_new.lexer
    /\ cur_token = Parser_new.cur_token
    /\ pc = "main"
    /\ last = NoLast
    /\ out = <<>>

Turn(name, r) ==
    /\ lexer' = r.p.lexer
    /\ cur_token' = r.p.cur_token
    /\ last' = [op |-> name, entry |-> Self, tag |-> r.tag, val |-> r.val,
                msg |-> r.msg, pulled |-> r.p.pulled]
    /\ pc' = IF r.tag = "Panic" THEN "aborted" ELSE "loop"
    /\ UNCHANGED <<input, out>>

MainStart ==
    /\ pc = "main"
    /\ Turn("get_next_token", Ok(<<>>, get_next_token(Self)))

LoopEof ==
    /\ pc = "loop"
    /\ cur_token = Eof
    /\ pc' = "done"
    /\ UNCHANGED <<input, lexer, cur_token, last, out>>

LoopSemicolon ==
    /\ pc = "loop"
    /\ cur_token = Char(";")
    /\ Turn("skip_semicolon", Ok(<<>>, get_next_token(Self)))

LoopDefinition ==
    /\ pc = "loop"
    /\ cur_token = Def
    /\ Turn("handle_definition", handle_definition(Self))

LoopExtern ==
    /\ pc = "loop"
    /\ cur_token = Extern
    /\ Turn("handle_extern", handle_extern(Self))

LoopTopLevelExpression ==
    /\ pc = "loop"
    /\ cur_token \notin {Eof, Char(";"), Def, Extern}
    /\ Turn("handle_top_level_expression", handle_top_level_expression(Self))

DriverNext ==
    \/ MainStart
    \/ LoopEof
    \/ LoopSemicolon
    \/ LoopDefinition
    \/ LoopExtern
    \/ LoopTopLevelExpression

DriverSpec == DriverInit /\ [][DriverNext]_vars

(***************************************************************************)
(* What the claims speak about: the tokens the parser had before it on     *)
(* entry to the last call (the current token, then what the tokenizer      *)
(* still held, up to and including Eof), and the trees a reference grammar *)
(* assigns to them.                                                        *)
(***************************************************************************)
RestTokensFrom(r) ==
    IF r.tok = Eof THEN <<Eof>> ELSE <<r.tok>> \o RestTokens(r.lex)

RestTokens(L) == RestTokensFrom(next_token(L))

TokensAt(P) ==
    IF P.cur_token = Eof THEN <<Eof>> ELSE <<P.cur_token>> \o RestTokens(P.lexer)

EntryTokens == TokensAt(last.entry)

Entered(name) == last.op = name /\ last.entry.cur_token # NoneTok

\* the parser after n more calls of get_next_token
Advance(P, n) == IF n = 0 THEN P ELSE Advance(get_next_token(P), n - 1)

IsPrimTok(t) == t.kind \in {"Identifier", "Number"}

IsOpTok(t) == t \in {Char("<"), Char("+"), Char("-"), Char("*")}

\* the reference grammar's table
RefPrec(t) ==
    CASE t = Char("<") -> 10
      [] t = Char("+") -> 20
      [] t = Char("-") -> 20
      [] t = Char("*") -> 40

\* ts[lo..hi] is primary (operator primary)*
IsFlatRange(ts, lo, hi) ==
    /\ lo <= hi
    /\ (hi - lo) % 2 = 0
    /\ \A i \in lo..hi : IF (i - lo) % 2 = 0 THEN IsPrimTok(ts[i]) ELSE IsOpTok(ts[i])

PrimTree(t) ==
    IF t.kind = "Number" THEN <<"Number", t.num>> ELSE <<"Variable", t.id>>

\* The tree of ts[lo..hi]: an operator chain splits at the last of its
\* operators of lowest precedence, which makes equal precedence group to the
\* left and higher precedence bind tighter.
RefTree(ts, lo, hi) ==
    IF lo = hi THEN PrimTree(ts[lo])
    ELSE LET ops == {i \in lo..hi : (i - lo) % 2 = 1}
             low == CHOOSE i \in ops : \A j \in ops : RefPrec(ts[i]) <= RefPrec(ts[j])
             at == CHOOSE i \in ops :
                       /\ RefPrec(ts[i]) = RefPrec(ts[low])
                       /\ \A j \in ops : RefPrec(ts[j]) = RefPrec(ts[low]) => j <= i
         IN  <<"Binary", ts[at].ch, RefTree(ts, lo, at - 1), RefTree(ts, at + 1, hi)>>

\* the index of the first ')' of ts, or 0
FirstClose(ts) ==
    IF \E i \in 1..Len(ts) : ts[i] = Char(")")
    THEN CHOOSE i \in 1..Len(ts) :
             ts[i] = Char(")") /\ \A j \in 1..(i - 1) : ts[j] # Char(")")
    ELSE 0

\* the end of the argument that starts at s: before the next ',' or the ')'
ArgEnd(ts, s, close) ==
    (CHOOSE c \in s..close :
         /\ (c = close \/ ts[c] = Char(","))
         /\ \A j \in s..(c - 1) : ts[j] # Char(",")) - 1

\* ts is name ( e1 , ... , en ) and more, each ei primary (operator primary)*
IsCall(ts) ==
    /\ Len(ts) >= 4
    /\ ts[1].kind = "Identifier"
    /\ ts[2] = Char("(")
    /\ FirstClose(ts) >= 3
    /\ \/ FirstClose(ts) = 3
       \/ \A s \in 3..FirstClose(ts) :
              (s = 3 \/ ts[s - 1] = Char(",")) =>
                  IsFlatRange(ts, s, ArgEnd(ts, s, FirstClose(ts)))

\* the trees of the arguments from index s on
RefArgs(ts, s, close) ==
    IF s >= close THEN <<>>
    ELSE <<RefTree(ts, s, ArgEnd(ts, s, close))>>
             \o RefArgs(ts, ArgEnd(ts, s, close) + 2, close)

CallArgs(ts) == RefArgs(ts, 3, FirstClose(ts))

\* ts is def name ( p1 , ... , pn ) and more
IsDefinitionHead(ts) ==
    /\ Len(ts) >= 5
    /\ ts[1] = Def
    /\ ts[2].kind = "Identifier"
    /\ ts[3] = Char("(")
    /\ FirstClose(ts) >= 4
    /\ \/ FirstClose(ts) = 4
       \/ /\ (FirstClose(ts) - 4) % 2 = 1
          /\ \A i \in 4..(FirstClose(ts) - 1) :
                 IF (i - 4) % 2 = 0 THEN ts[i].kind = "Identifier" ELSE ts[i] = Char(",")

DefinitionParams(ts) ==
    [k \in 1..((FirstClose(ts) - 3) \div 2) |-> ts[2 * k + 2].id]

\* ts is def name ( then identifiers and commas in any order, then )
IsLooseDefinitionHead(ts) ==
    /\ Len(ts) >= 5
    /\ ts[1] = Def
    /\ ts[2].kind = "Identifier"
    /\ ts[3] = Char("(")
    /\ \E c \in 4..Len(ts) :
           /\ ts[c] = Char(")")
           /\ \A i \in 4..(c - 1) : ts[i].kind = "Identifier" \/ ts[i] = Char(",")

(***************************************************************************)
(* C1: for every expression made of variable or number primaries separated *)
(* by operators from <, +, -, *, parse_expression returns the tree of the  *)
(* reference precedence grammar (< at 10, + and - at 20, * at 40; equal    *)
(* precedence groups to the left, higher precedence takes the operand      *)
(* first).                                                                 *)
(***************************************************************************)
C1_PrecedenceTree ==
    (Entered("parse_expression") /\ IsFlatRange(EntryTokens, 1, Len(EntryTokens) - 1))
        => /\ last.tag = "Ok"
           /\ last.val = RefTree(EntryTokens, 1, Len(EntryTokens) - 1)
           /\ cur_token = Eof

\* three operators, grouped on both sides of the root: a * 2 + c * 4
C1_Witness ==
    /\ Entered("parse_expression")
    /\ IsFlatRange(EntryTokens, 1, Len(EntryTokens) - 1)
    /\ Len(EntryTokens) = 8
    /\ last.tag = "Ok"
    /\ last.val[3][1] = "Binary"
    /\ last.val[4][1] = "Binary"

(***************************************************************************)
(* C2: parsing a call name ( e1 , ... , en ) with n >= 2 succeeds and      *)
(* returns Call(name, [e1, ..., en]), the arguments in source order: the   *)
(* comma after an argument is consumed and the next argument parsed.       *)
(***************************************************************************)
C2_CallWithSeveralArguments ==
    (Entered("parse_primary") /\ IsCall(EntryTokens) /\ Len(CallArgs(EntryTokens)) >= 2)
        => /\ last.tag = "Ok"
           /\ last.val = <<"Call", EntryTokens[1].id, CallArgs(EntryTokens)>>

(***************************************************************************)
(* C3: after a successful parse of a call with at least one argument the   *)
(* closing ')' is the last token consumed: the current token is the token  *)
(* that follows the ')' in the input, so that in f(1) + 2 the binary       *)
(* operator loop still sees the '+' and the result is                      *)
(* Binary('+', Call(f, [1]), 2).                                           *)
(***************************************************************************)
C3_CloseParenConsumedLast ==
    /\ (/\ Entered("parse_primary")
        /\ IsCall(EntryTokens)
        /\ Len(CallArgs(EntryTokens)) >= 1
        /\ last.tag = "Ok")
           => cur_token = EntryTokens[FirstClose(EntryTokens) + 1]
    /\ (/\ Entered("parse_expression")
        /\ IsCall(EntryTokens)
        /\ Len(CallArgs(EntryTokens)) = 1
        /\ Len(EntryTokens) = FirstClose(EntryTokens) + 3
        /\ IsOpTok(EntryTokens[FirstClose(EntryTokens) + 1])
        /\ IsPrimTok(EntryTokens[FirstClose(EntryTokens) + 2]))
           => /\ last.tag = "Ok"
              /\ last.val = <<"Binary", EntryTokens[FirstClose(EntryTokens) + 1].ch,
                              <<"Call", EntryTokens[1].id, CallArgs(EntryTokens)>>,
                              PrimTree(EntryTokens[FirstClose(EntryTokens) + 2])>>

(***************************************************************************)
(* C4: parsing a call with an empty argument list, name ( ), returns       *)
(* Call(name, []) and consumes the closing ')': the current token          *)
(* afterwards is the token that follows the ')'.                           *)
(***************************************************************************)
C4_EmptyCallConsumesCloseParen ==
    (/\ Entered("parse_primary")
     /\ IsCall(EntryTokens)
     /\ FirstClose(EntryTokens) = 3)
        => /\ last.tag = "Ok"
           /\ last.val = <<"Call", EntryTokens[1].id, <<>>>>
           /\ cur_token = EntryTokens[4]
           /\ last.pulled = 3

(***************************************************************************)
(* C5: parse_definition on def name ( p1, ..., pn ) body returns           *)
(* Function(Prototype(name, [p1, ..., pn]), B), B being the tree that      *)
(* parse_expression returns when it is entered at the first token of body; *)
(* it returns an error and no function when the body fails, and when what  *)
(* follows def is no prototype.                                            *)
(***************************************************************************)
BodyResult == parse_expression(Advance(last.entry, FirstClose(EntryTokens)))

C5_Definition ==
    /\ (Entered("parse_definition") /\ IsDefinitionHead(EntryTokens))
           => IF BodyResult.tag = "Ok"
              THEN /\ last.tag = "Ok"
                   /\ last.val = <<"Function",
                                   <<"Prototype", EntryTokens[2].id,
                                     DefinitionParams(EntryTokens)>>,
                                   BodyResult.val>>
                   /\ cur_token = BodyResult.p.cur_token
                   /\ lexer = BodyResult.p.lexer
              ELSE /\ last.tag = "Err"
                   /\ last.msg = BodyResult.msg
                   /\ last.val = <<>>
    /\ (/\ Entered("parse_definition")
        /\ last.entry.cur_token = Def
        /\ ~IsLooseDefinitionHead(EntryTokens))
           => last.tag = "Err" /\ last.val = <<>>

\* def f(x,y) x+y*2
C5_Witness ==
    /\ Entered("parse_definition")
    /\ IsDefinitionHead(EntryTokens)
    /\ Len(DefinitionParams(EntryTokens)) = 2
    /\ last.tag = "Ok"
    /\ last.val[3][1] = "Binary"

(***************************************************************************)
(* C6: parse_prototype entered with a current token that is not an         *)
(* identifier fails with "expected function name in prototype", leaves the *)
(* current token as it was on entry and pulls no token from the tokenizer. *)
(***************************************************************************)
C6_PrototypeFailsWithoutConsuming ==
    (Entered("parse_prototype") /\ last.entry.cur_token.kind # "Identifier")
        => /\ last.tag = "Err"
           /\ last.msg = "expected function name in prototype"
           /\ cur_token = last.entry.cur_token
           /\ lexer = last.entry.lexer
           /\ last.pulled = 0

C6_Witness ==
    /\ Entered("parse_prototype")
    /\ last.entry.cur_token = Char("(")
    /\ last.entry.lexer.last_char # NoneChar
    /\ last.tag = "Err"

(***************************************************************************)
(* C7: once get_next_token has been called, the current-token buffer holds *)
(* a token whenever a parse routine returns, with a result or with an      *)
(* error: the empty buffer that take() leaves never outlives the routine.  *)
(***************************************************************************)
C7_BufferPopulatedOnReturn ==
    (/\ last.tag \in {"Ok", "Err"}
     /\ (last.op = "get_next_token" \/ last.entry.cur_token # NoneTok))
        => cur_token # NoneTok

\* parse_prototype took the name and the parameters, then failed
C7_Witness ==
    /\ Entered("parse_prototype")
    /\ last.tag = "Err"
    /\ last.msg = "expected ')' in prototype"
    /\ last.pulled >= 3
    /\ cur_token # NoneTok

(***************************************************************************)
(* C8: contract violations abort.  parse_definition entered with a current *)
(* token other than def, parse_extern entered with one other than extern   *)
(* and cur_token() called on an empty buffer panic: they return neither Ok *)
(* nor Err.                                                                *)
(***************************************************************************)
C8_ContractViolationsPanic ==
    /\ (last.op = "parse_definition" /\ last.entry.cur_token # Def) => last.tag = "Panic"
    /\ (last.op = "parse_extern" /\ last.entry.cur_token # Extern) => last.tag = "Panic"
    /\ (last.op = "cur_token" /\ last.entry.cur_token = NoneTok) => last.tag = "Panic"

C8_Witness ==
    /\ last.op = "parse_definition"
    /\ last.entry.cur_token.kind = "Identifier"
    /\ last.tag = "Panic"
    /\ pc = "aborted"

(***************************************************************************)
(* C9: the driver loop terminates on every finite input.  The loop breaks  *)
(* only at Eof, and every turn of it that starts with another current      *)
(* token pulls at least one token from the tokenizer, so that fewer tokens *)
(* lie ahead after the turn than before it and no token is failed on       *)
(* twice.  The tokens ahead are finitely many, so the turns are too.       *)
(***************************************************************************)
TokensAhead(P) == Len(TokensAt(P))

C9_DriverTerminates ==
    /\ last.op \in {"skip_semicolon", "handle_definition", "handle_extern",
                    "handle_top_level_expression"}
           => /\ last.entry.cur_token # Eof
              /\ last.pulled >= 1
              /\ last.tag = "Panic" \/ TokensAhead(Self) < TokensAhead(last.entry)
    /\ pc = "done" => cur_token = Eof

\* a turn that failed and was forced on, then the break
C9_Witness ==
    /\ pc = "done"
    /\ last.op = "handle_top_level_expression"
    /\ last.tag = "Err"
    /\ last.pulled = 1

(***************************************************************************)
(* C10: end of input is permanent.  Once a call of next_token has returned *)
(* Eof, every later call returns Eof too and pulls no further character    *)
(* from the source.                                                        *)
(***************************************************************************)
C10_EofPermanent ==
    \A i \in 1..Len(out) : \A j \in i..Len(out) :
        out[i].tok = Eof => out[j].tok = Eof /\ out[j].pulls = out[i].pulls

\* some tokens were returned, then Eof after a comment ran into the end of the
\* source, then Eof twice more
C10_Witness ==
    /\ Len(out) >= 4
    /\ out[1].tok # Eof
    /\ out[Len(out) - 2].tok = Eof
    /\ out[Len(out)].tok = Eof
    /\ "#" \in {input[i] : i \in 1..Len(input)}

(***************************************************************************)
(* The maximal runs of characters other than whitespace in a character     *)
(* sequence, in order.                                                     *)
(***************************************************************************)
RunStarts(s) ==
    {i \in 1..Len(s) :
        ~is_ascii_whitespace(s[i]) /\ (i = 1 \/ is_ascii_whitespace(s[i - 1]))}

RunEnd(s, i) ==
    CHOOSE j \in i..Len(s) :
        /\ \A k \in i..j : ~is_ascii_whitespace(s[k])
        /\ (j = Len(s) \/ is_ascii_whitespace(s[j + 1]))

Runs(s) ==
    [k \in 1..Cardinality(RunStarts(s)) |->
        LET i == CHOOSE i \in RunStarts(s) :
                     Cardinality({j \in RunStarts(s) : j < i}) = k - 1
        IN  SubSeq(s, i, RunEnd(s, i))]

\* a letter, then letters and digits
IsWord(w) ==
    /\ is_ascii_alphabetic(w[1])
    /\ \A k \in 1..Len(w) : is_ascii_alphanumeric(w[k])

\* the token the claim assigns to a word
WordToken(w) ==
    IF w = KwDef THEN Def ELSE IF w = KwExtern THEN Extern ELSE Identifier(w)

(***************************************************************************)
(* C11: on an input of whitespace-separated words (a letter, then letters  *)
(* and digits) the tokenizer returns one token for each maximal run, in    *)
(* input order: Def for the run def, Extern for the run extern, and        *)
(* Identifier with the whole run for every other one (define, def1 and     *)
(* externs are identifiers); after the last run it returns Eof.            *)
(***************************************************************************)
C11_OneTokenPerWord ==
    (\A k \in 1..Len(Runs(input)) : IsWord(Runs(input)[k]))
        => \A i \in 1..Len(out) :
               out[i].tok = IF i <= Len(Runs(input))
                            THEN WordToken(Runs(input)[i])
                            ELSE Eof

\* def, then a longer word that begins with a keyword, then the end
C11_Witness ==
    /\ Len(out) = 3
    /\ out[1].tok = Def
    /\ out[2].tok \in {Identifier(KwDef \o <<"i", "n", "e">>),
                       Identifier(KwDef \o <<"1">>),
                       Identifier(KwExtern \o <<"s">>)}
    /\ out[3].tok = Eof

(***************************************************************************)
(* Positions in the input.  A call of next_token starts at the character   *)
(* the tokenizer holds as its lookahead, which is input[pulls]; the token  *)
(* it returns starts at the first character from there on that is neither  *)
(* whitespace nor part of a comment.                                       *)
(***************************************************************************)
\* the index of the CR or LF that ends the comment begun at p, or Len(s) + 1
CommentEnd(s, p) ==
    IF \E q \in p..Len(s) : s[q] \in {"\r", "\n"}
    THEN CHOOSE q \in p..Len(s) :
             s[q] \in {"\r", "\n"} /\ \A k \in p..(q - 1) : s[k] \notin {"\r", "\n"}
    ELSE Len(s) + 1

NextStart(s, p) ==
    IF p > Len(s) THEN Len(s) + 1
    ELSE IF is_ascii_whitespace(s[p]) THEN NextStart(s, p + 1)
    ELSE IF s[p] = "#" THEN NextStart(s, CommentEnd(s, p))
    ELSE p

\* where the i-th returned token starts
StartOf(i) == NextStart(input, IF i = 1 THEN 1 ELSE out[i - 1].pulls)

IsNumeralChar(c) == is_ascii_digit(c) \/ c = "."

\* the end of the maximal run of digits and '.' that starts at i
NumeralEnd(s, i) ==
    CHOOSE j \in i..Len(s) :
        /\ \A k \in i..j : IsNumeralChar(s[k])
        /\ (j = Len(s) \/ ~IsNumeralChar(s[j + 1]))

\* not a numeral: more than one '.', or no digit
InvalidNumeral(t) ==
    \/ Cardinality({k \in 1..Len(t) : t[k] = "."}) > 1
    \/ \A k \in 1..Len(t) : t[k] = "."

\* tok is a token that starts at position q of the input
StartsAt(tok, q) ==
    IF q > Len(input) THEN tok = Eof
    ELSE IF is_ascii_alphabetic(input[q])
    THEN \/ tok.kind = "Identifier" /\ tok.id[1] = input[q]
         \/ tok = Def /\ input[q] = "d"
         \/ tok = Extern /\ input[q] = "e"
    ELSE IF IsNumeralChar(input[q]) THEN tok.kind = "Number"
    ELSE tok = Char(input[q])

(***************************************************************************)
(* C12: a maximal run of digits and '.' that is not a numeral (more than   *)
(* one '.', or no digit) is returned as one Number token of value 0: the   *)
(* call consumes the whole run and no more than the character after it,    *)
(* and the next token starts after the run.                                *)
(***************************************************************************)
C12_InvalidNumeralIsZero ==
    \A i \in 1..Len(out) :
        (/\ StartOf(i) <= Len(input)
         /\ IsNumeralChar(input[StartOf(i)])
         /\ InvalidNumeral(SubSeq(input, StartOf(i), NumeralEnd(input, StartOf(i)))))
            => /\ out[i].tok = Number(<<0, 0>>)
               /\ out[i].pulls = NumeralEnd(input, StartOf(i)) + 1
               /\ i < Len(out)
                      => StartsAt(out[i + 1].tok,
                                  NextStart(input, NumeralEnd(input, StartOf(i)) + 1))

\* a run with a digit and two '.', then '+'
C12_Witness ==
    /\ Len(out) >= 2
    /\ StartOf(1) <= Len(input)
    /\ IsNumeralChar(input[StartOf(1)])
    /\ Cardinality({k \in StartOf(1)..NumeralEnd(input, StartOf(1)) : input[k] = "."}) = 2
    /\ \E k \in StartOf(1)..NumeralEnd(input, StartOf(1)) : input[k] = "1"
    /\ out[1].tok = Number(<<0, 0>>)
    /\ out[2].tok = Char("+")

\* position i of s lies in a comment: after a '#' with no CR or LF in between
InComment(s, i) ==
    \E j \in 1..i : s[j] = "#" /\ \A k \in j..i : s[k] \notin {"\r", "\n"}

\* s consists of whitespace and comments only
IsBlankInput(s) ==
    \A i \in 1..Len(s) : is_ascii_whitespace(s[i]) \/ InComment(s, i)

(***************************************************************************)
(* C13: on an input that consists of ASCII whitespace and '#' comments     *)
(* only (the last comment ended by a line terminator or by the end of the  *)
(* input) the first call of next_token returns Eof, and so does every      *)
(* later call: no other token is produced.                                 *)
(***************************************************************************)
C13_BlankInputIsEof ==
    IsBlankInput(input) => \A i \in 1..Len(out) : out[i].tok = Eof

\* a terminated comment line, text in a comment, and a last comment that the
\* end of the input ends
C13_Witness ==
    /\ IsBlankInput(input)
    /\ Len(out) >= 1
    /\ Cardinality({i \in 1..Len(input) : input[i] = "#"}) >= 2
    /\ \E i \in 1..Len(input) : is_ascii_alphanumeric(input[i])
    /\ \E i \in 1..Len(input) : input[i] \in {"\r", "\n"}
    /\ input[Len(input)] \notin {"\r", "\n"}

(***************************************************************************)
(* The reference grammar of expressions over a token sequence ts that ends *)
(* with Eof:                                                               *)
(*     expression := primary (operator primary)*                           *)
(*     primary    := number | name | name '(' ')'                          *)
(*                 | name '(' expression (',' expression)* ')'             *)
(*                 | '(' expression ')'                                    *)
(* RefExpressionEnd(ts, i) is the index of the token that follows the      *)
(* expression that starts at ts[i], or 0 when none starts there.           *)
(***************************************************************************)
RefParenClose(ts, e) ==
    IF e # 0 /\ ts[e] = Char(")") THEN e + 1 ELSE 0

RefArgsNext(ts, e) ==
    IF e = 0 THEN 0
    ELSE IF ts[e] = Char(")") THEN e + 1
    ELSE IF ts[e] = Char(",") THEN RefArgsNext(ts, RefChainEnd(ts, RefPrimaryEnd(ts, e + 1)))
    ELSE 0

RefPrimaryEnd(ts, i) ==
    IF ts[i].kind = "Number" THEN i + 1
    ELSE IF ts[i].kind = "Identifier"
    THEN IF ts[i + 1] # Char("(") THEN i + 1
         ELSE IF ts[i + 2] = Char(")") THEN i + 3
         ELSE RefArgsNext(ts, RefChainEnd(ts, RefPrimaryEnd(ts, i + 2)))
    ELSE IF ts[i] = Char("(")
    THEN RefParenClose(ts, RefChainEnd(ts, RefPrimaryEnd(ts, i + 1)))
    ELSE 0

RefChainEnd(ts, j) ==
    IF j = 0 THEN 0
    ELSE IF IsOpTok(ts[j]) THEN RefChainEnd(ts, RefPrimaryEnd(ts, j + 1))
    ELSE j

RefExpressionEnd(ts, i) == RefChainEnd(ts, RefPrimaryEnd(ts, i))

\* a call begins among ts[lo..hi]
HasCall(ts, lo, hi) ==
    \E i \in lo..hi : ts[i].kind = "Identifier" /\ ts[i + 1] = Char("(")

(***************************************************************************)
(* C14: a parenthesized expression whose inner expression is followed by a *)
(* token other than ')' (Eof included) fails with the error                *)
(* "expected ')'" and returns no expression.                               *)
(***************************************************************************)
C14_UnclosedParenthesisFails ==
    (/\ Entered("parse_primary")
     /\ EntryTokens[1] = Char("(")
     /\ RefExpressionEnd(EntryTokens, 2) # 0
     /\ EntryTokens[RefExpressionEnd(EntryTokens, 2)] # Char(")"))
        => /\ last.tag = "Err"
           /\ last.msg = "expected ')'"
           /\ last.val = <<>>

\* the same, for inner expressions without a call
C14_CallFreeUnclosedParenthesisFails ==
    (/\ Entered("parse_primary")
     /\ EntryTokens[1] = Char("(")
     /\ RefExpressionEnd(EntryTokens, 2) # 0
     /\ ~HasCall(EntryTokens, 2, RefExpressionEnd(EntryTokens, 2) - 1)
     /\ EntryTokens[RefExpressionEnd(EntryTokens, 2)] # Char(")"))
        => /\ last.tag = "Err"
           /\ last.msg = "expected ')'"
           /\ last.val = <<>>

(***************************************************************************)
(* The parameter list of a prototype name ( ... in the tokens ts: it stops *)
(* at the first token from ts[3] on that is neither an identifier nor a    *)
(* ',' (Eof at the latest), and its parameters are the identifiers before  *)
(* that token, in order.                                                   *)
(***************************************************************************)
IsParamTok(t) == t.kind = "Identifier" \/ t = Char(",")

ParamStop(ts) ==
    CHOOSE c \in 3..Len(ts) :
        ~IsParamTok(ts[c]) /\ \A i \in 3..(c - 1) : IsParamTok(ts[i])

IsName(t) == t.kind = "Identifier"

TokenId(t) == t.id

Names(ts) == [k \in 1..Len(ts) |-> TokenId(ts[k])]

RefParams(ts) == Names(SelectSeq(SubSeq(ts, 3, ParamStop(ts) - 1), IsName))

(***************************************************************************)
(* C15: parse_prototype entered at name ( collects every identifier up to  *)
(* the first token that is neither an identifier nor ',', in input order,  *)
(* whatever the places of the commas.  It succeeds exactly when that token *)
(* is ')', with Prototype(name, parameters) and the ')' consumed; if not   *)
(* it fails with "expected ')' in prototype", that token left current.     *)
(***************************************************************************)
C15_PrototypeParameters ==
    (/\ Entered("parse_prototype")
     /\ EntryTokens[1].kind = "Identifier"
     /\ EntryTokens[2] = Char("("))
        => IF EntryTokens[ParamStop(EntryTokens)] = Char(")")
           THEN /\ last.tag = "Ok"
                /\ last.val = <<"Prototype", EntryTokens[1].id, RefParams(EntryTokens)>>
                /\ cur_token = EntryTokens[ParamStop(EntryTokens) + 1]
           ELSE /\ last.tag = "Err"
                /\ last.msg = "expected ')' in prototype"
                /\ last.val = <<>>
                /\ cur_token = EntryTokens[ParamStop(EntryTokens)]

\* f(,x y): a leading comma, and none between the two names
C15_Witness ==
    /\ Entered("parse_prototype")
    /\ EntryTokens[1].kind = "Identifier"
    /\ EntryTokens[2] = Char("(")
    /\ EntryTokens[3] = Char(",")
    /\ EntryTokens[4].kind = "Identifier"
    /\ EntryTokens[5].kind = "Identifier"
    /\ EntryTokens[6] = Char(")")
    /\ last.tag = "Ok"
    /\ last.val = <<"Prototype", EntryTokens[1].id, <<EntryTokens[4].id, EntryTokens[5].id>>>>

\* f(x,,y 1): the list stops at a number
C15_FailureReached ==
    /\ Entered("parse_prototype")
    /\ EntryTokens[1].kind = "Identifier"
    /\ EntryTokens[2] = Char("(")
    /\ Len(RefParams(EntryTokens)) >= 2
    /\ EntryTokens[ParamStop(EntryTokens)].kind = "Number"
    /\ last.tag = "Err"

(***************************************************************************)
(* C16: parse_expression consumes no token beyond an expression without a  *)
(* call.  When the tokens from the current one on begin with such an       *)
(* expression (numbers, variables, parentheses and operators), the token   *)
(* after it being none of <, +, -, *, parse_expression succeeds with that  *)
(* token as the current token, having pulled exactly the tokens of the     *)
(* expression, and returns the tree of the operands read so far.           *)
(***************************************************************************)
C16_NoTokenBeyondExpression ==
    (/\ Entered("parse_expression")
     /\ RefExpressionEnd(EntryTokens, 1) # 0
     /\ ~HasCall(EntryTokens, 1, RefExpressionEnd(EntryTokens, 1) - 1))
        => /\ last.tag = "Ok"
           /\ cur_token = EntryTokens[RefExpressionEnd(EntryTokens, 1)]
           /\ last.pulled = RefExpressionEnd(EntryTokens, 1) - 1
           /\ lexer = Advance(last.entry, RefExpressionEnd(EntryTokens, 1) - 1).lexer
           /\ IsFlatRange(EntryTokens, 1, RefExpressionEnd(EntryTokens, 1) - 1)
                  => last.val = RefTree(EntryTokens, 1, RefExpressionEnd(EntryTokens, 1) - 1)

\* ((a*2)+b) followed by a token that is no operator and not the end
C16_Witness ==
    /\ Entered("parse_expression")
    /\ EntryTokens[1] = Char("(")
    /\ EntryTokens[2] = Char("(")
    /\ RefExpressionEnd(EntryTokens, 1) # 0
    /\ ~HasCall(EntryTokens, 1, RefExpressionEnd(EntryTokens, 1) - 1)
    /\ EntryTokens[RefExpressionEnd(EntryTokens, 1)] \notin {Eof, Char(")")}
    /\ last.tag = "Ok"
    /\ last.val[1] = "Binary"
    /\ cur_token = EntryTokens[RefExpressionEnd(EntryTokens, 1)]

(***************************************************************************)
(* C17: parse_primary entered with a current token that is not a number,   *)
(* an identifier or '(' fails with the message                             *)
(* "unknown token when expecting an expression".                           *)
(***************************************************************************)
C17_UnknownTokenMessage ==
    (/\ Entered("parse_primary")
     /\ last.entry.cur_token.kind \notin {"Number", "Identifier"}
     /\ last.entry.cur_token # Char("("))
        => /\ last.tag = "Err"
           /\ last.msg = "unknown token when expecting an expression"

\* what the code does in that case: it fails, consuming nothing, with a
\* message spelled differently
C17_FailsWithTheCodesMessage ==
    (/\ Entered("parse_primary")
     /\ last.entry.cur_token.kind \notin {"Number", "Identifier"}
     /\ last.entry.cur_token # Char("("))
        => /\ last.tag = "Err"
           /\ last.msg = "unkown token when expecting an expression"
           /\ last.pulled = 0

(***************************************************************************)
(* The input with each comment, from its '#' up to and including the next  *)
(* CR or LF or up to the end of the input, replaced by one newline.        *)
(***************************************************************************)
\* s after the rest of a comment is dropped from its front
AfterComment(s) ==
    IF s = <<>> THEN <<>>
    ELSE IF Head(s) \in {"\r", "\n"} THEN Tail(s)
    ELSE AfterComment(Tail(s))

Uncommented(s) ==
    IF s = <<>> THEN <<>>
    ELSE IF Head(s) = "#" THEN <<"\n">> \o Uncommented(AfterComment(Tail(s)))
    ELSE <<Head(s)>> \o Uncommented(Tail(s))

\* the tokens of the characters chars, up to and including Eof
TokensOf(chars) == RestTokens(Lexer_on(chars))

(***************************************************************************)
(* C18: comments are transparent.  The tokens returned on an input are the *)
(* tokens of the input with each comment replaced by one newline, in the   *)
(* same order, Eof after the last one: the token before a comment and the  *)
(* token after its line terminator are both returned.                      *)
(***************************************************************************)
C18_CommentsTransparent ==
    \A i \in 1..Len(out) :
        out[i].tok = IF i <= Len(TokensOf(Uncommented(input)))
                     THEN TokensOf(Uncommented(input))[i]
                     ELSE Eof

\* a name, a comment that CR ends, a token on the next line, then the end
C18_Witness ==
    /\ Len(out) = 3
    /\ out[1].tok.kind = "Identifier"
    /\ out[2].tok.kind \in {"Identifier", "Number"}
    /\ out[3].tok = Eof
    /\ \E i \in 1..Len(input) :
           /\ input[i] = "#"
           /\ CommentEnd(input, i) <= Len(input)
           /\ input[CommentEnd(input, i)] = "\r"
           /\ CommentEnd(input, i) > i + 1
           /\ \A k \in 1..(i - 1) : input[k] # "#"
           /\ NextStart(input, 1) < i
           /\ NextStart(input, CommentEnd(input, i)) <= Len(input)

(***************************************************************************)
(* The lexeme that starts at position i of s: the maximal run of letters   *)
(* and digits after a letter, the maximal run of digits and '.', or the    *)
(* one character.                                                          *)
(***************************************************************************)
WordEnd(s, i) ==
    CHOOSE j \in i..Len(s) :
        /\ \A k \in i..j : is_ascii_alphanumeric(s[k])
        /\ (j = Len(s) \/ ~is_ascii_alphanumeric(s[j + 1]))

LexemeEnd(s, i) ==
    IF is_ascii_alphabetic(s[i]) THEN WordEnd(s, i)
    ELSE IF IsNumeralChar(s[i]) THEN NumeralEnd(s, i)
    ELSE i

\* the token of the lexeme t
LexemeToken(t) ==
    IF is_ascii_alphabetic(t[1]) THEN WordToken(t)
    ELSE IF IsNumeralChar(t[1]) THEN Number(parse_f64(t))
    ELSE Char(t[1])

\* the positions of the i-th returned token
Span(i) == StartOf(i)..(out[i].pulls - 1)

(***************************************************************************)
(* C19: the character that ends an identifier or a numeral is not lost.    *)
(* Each call returns the token of the whole lexeme that starts at the      *)
(* first character, from the lookahead on, outside whitespace and          *)
(* comments, and pulls exactly one character past it: that character is    *)
(* the lookahead the next call starts from.  So once Eof is returned,      *)
(* every character of the input that is not whitespace and not in a        *)
(* comment lies in the lexeme of exactly one returned token.               *)
(***************************************************************************)
C19_LookaheadNotLost ==
    /\ \A i \in 1..Len(out) :
           IF StartOf(i) > Len(input)
           THEN out[i].tok = Eof /\ out[i].pulls = Len(input) + 1
           ELSE /\ out[i].pulls = LexemeEnd(input, StartOf(i)) + 1
                /\ out[i].tok = LexemeToken(SubSeq(input, StartOf(i),
                                                   LexemeEnd(input, StartOf(i))))
    /\ lexer.last_char = IF lexer.pulls <= Len(input) THEN input[lexer.pulls] ELSE NoneChar
    /\ (\E i \in 1..Len(out) : out[i].tok = Eof)
           => \A q \in 1..Len(input) :
                  (~is_ascii_whitespace(input[q]) /\ ~InComment(input, q))
                      => Cardinality({i \in 1..Len(out) :
                                         out[i].tok # Eof /\ q \in Span(i)}) = 1

\* a+b-c
C19_Witness ==
    /\ Len(out) = 6
    /\ out[1].tok = Identifier(<<"a">>)
    /\ out[2].tok = Char("+")
    /\ out[3].tok = Identifier(<<"b">>)
    /\ out[4].tok = Char("-")
    /\ out[5].tok = Identifier(<<"c">>)
    /\ out[6].tok = Eof

(***************************************************************************)
(* C20: the driver loop never reaches a panic.  Whatever the input, no     *)
(* turn of the loop ends in the assertions of parse_definition,            *)
(* parse_extern and parse_parenthesis_expr, in the unreachable!() arms of  *)
(* parse_number_expr, parse_identifier_expr and parse_bin_op_rhs or in the *)
(* expect of cur_token(), and the loop never finds the buffer empty.       *)
(***************************************************************************)
C20_DriverNeverPanics ==
    /\ pc # "aborted"
    /\ last.tag # "Panic"
    /\ pc = "loop" => cur_token # NoneTok

\* the loop has ended after a definition whose body went through the
\* operator loop
C20_Witness ==
    /\ pc = "done"
    /\ last.op = "handle_definition"
    /\ last.tag = "Ok"
    /\ last.val[3][1] = "Binary"
    /\ last.pulled >= 5

====
